---- MODULE Spec2Model ----
(***************************************************************************)
(* Model of reply.cpp, the C-callable bridge between a foreign-language    *)
(* producer and the unity::scopes SearchReply / PreviewReply proxies.      *)
(*                                                                         *)
(* One reply channel is modelled (its kind, search or preview, is chosen   *)
(* in Init: channels share no state, so one channel of each kind covers    *)
(* the program).  Every extern function of reply.cpp is one action that    *)
(* models the whole function, the call into libunity-scopes included.      *)
(* The library calls are modelled after the documented contract of the     *)
(* unity::scopes API: push() returns false once the query is finished,     *)
(* finished()/error() after the first are ignored, register_category()     *)
(* throws on a duplicate id, serialising a result without uri throws.      *)
(*                                                                         *)
(* Spec       : the reply operations called through the producer's handle. *)
(* HandleSpec : the handle operations (init_*_ptr, destroy_*_ptr) together  *)
(*              with finished/error called through any live handle.        *)
(***************************************************************************)
EXTENDS Integers, Sequences, FiniteSets

\* ---------------------------------------------------------------- bounds
\* Number of transmissions (other than the terminal one) a channel makes.
MaxObserved == 2
\* Number of SharedPtrData handle slots the caller owns.
NumSlots == 3

VARIABLES
    kind,        \* "search" | "preview": the type of proxy behind the handles
    state,       \* "Open" | "Finished" | "Errored": the proxy's completion state
    registry,    \* SearchReply's category registry: id -> [title, icon, renderer]
    observed,    \* what the proxy has transmitted to the consumer, in order
    accepted,    \* history: the caller's inputs of the calls the proxy transmitted
    last,        \* history: the last boundary call and what its caller got back
    crashed,     \* TRUE once a C++ exception has left an extern function
    ptr,         \* SharedPtrData slot -> "raw" | "live" | "dead"
    use_count,   \* use_count() of the shared_ptr control block of the proxy
    transport,   \* TRUE while the middleware still holds its own reference
    destroyed    \* how many times the proxy's destructor has run

vars == <<kind, state, registry, observed, accepted, last, crashed,
          ptr, use_count, transport, destroyed>>

chan == <<state, registry, observed, accepted>>
handles == <<ptr, use_count, transport, destroyed>>

\* ------------------------------------------------------------ input sets
NULL == "NULL"
Slots == 1..NumSlots

\* values the caller's char *error variable may hold when the call is made
ErrIn == {NULL, "stale"}

ErrStrings == {"backend timeout", "no network"}

\* (id, title, icon, cat_template) argument tuples of register_category
TemplateJson == "{\"schema-version\":1}"
CategoryArgs ==
    { <<"sports", "Sports", "", "">>,
      <<"sports", "Other", "icon.png", TemplateJson>>,
      <<"news", "News", "", "">>,
      <<"news", "News", "", "{">> }

Titles == {"Match A", "Match B"}
Uris == {"", "uri:1"}

FiltersOk == "[{\"filter_type\":\"option_selector\",\"id\":\"f1\"}]"
FiltersBadElem == "[{\"filter_type\":\"option_selector\",\"id\":\"f1\"},7]"
FiltersBadType == "[{\"filter_type\":\"bogus\",\"id\":\"f2\"}]"
FiltersNotArray == "{\"id\":\"f1\"}"
FiltersMalformed == "[{"
FiltersJson == {FiltersOk, FiltersBadElem, FiltersBadType, FiltersNotArray, FiltersMalformed}

StateOk == "{\"f1\":\"x\"}"
StateNotDict == "7"
StateMalformed == "{\"f1\":"
FilterStateJson == {StateOk, StateNotDict, StateMalformed}

WidgetOk1 == "{\"id\":\"W1\",\"type\":\"text\"}"
WidgetOk2 == "{\"id\":\"W2\",\"type\":\"image\"}"
WidgetOk3 == "{\"id\":\"W3\",\"type\":\"text\"}"
WidgetBad == "{\"id\":"
\* the GoString arrays handed to preview_reply_push_widgets
WidgetArrays ==
    { << >>, <<WidgetOk1>>, <<WidgetOk2, WidgetOk1>>, <<WidgetOk1, WidgetOk2, WidgetOk3>>,
      <<WidgetBad>>, <<WidgetOk1, WidgetBad, WidgetOk3>> }

AttrKeys == {"rating", "title"}
AttrJson == {"4.5", "5.0", "4.5.0"}

\* ------------------------------------------------- exceptions as values
Ok(v) == [threw |-> FALSE, val |-> v]
Throw(what) == [threw |-> TRUE, what |-> what]

\* ------------------------------------------------------- string transfer
\* A GoString is a (pointer, length) pair; from_gostring copies exactly n
\* bytes.  The model's strings stand for the n bytes.
from_gostring(str) == str

\* ------------------------------------------------ Variant and JSON text
VArray(items) == [which |-> "Array", items |-> items]
VDict(entries) == [which |-> "Dict", entries |-> entries]
VInt(n) == [which |-> "Int", n |-> n]
VDouble(d) == [which |-> "Double", d |-> d]

FilterDict1 == VDict({<<"filter_type", "option_selector">>, <<"id", "f1">>})
FilterDictBogus == VDict({<<"filter_type", "bogus">>, <<"id", "f2">>})

\* Variant::deserialize_json: the value tree of a JSON text, or an exception
\* on text that is not JSON.
deserialize_json(text) ==
    CASE text = FiltersOk -> Ok(VArray(<<FilterDict1>>))
      [] text = FiltersBadElem -> Ok(VArray(<<FilterDict1, VInt(7)>>))
      [] text = FiltersBadType -> Ok(VArray(<<FilterDictBogus>>))
      [] text = FiltersNotArray -> Ok(VDict({<<"id", "f1">>}))
      [] text = StateOk -> Ok(VDict({<<"f1", "x">>}))
      [] text = StateNotDict -> Ok(VInt(7))
      [] text = "4.5" -> Ok(VDouble(<<4, 5>>))
      [] text = "5.0" -> Ok(VDouble(<<5, 0>>))
      [] OTHER -> Throw("deserialize_json(): parse error")

get_array(v) ==
    IF v.which = "Array" THEN Ok(v.items) ELSE Throw("Variant does not contain an array")

get_dict(v) ==
    IF v.which = "Dict" THEN Ok(v.entries) ELSE Throw("Variant does not contain a dictionary")

Lookup(entries, key) == {e[2] : e \in {x \in entries : x[1] = key}}

\* FilterBase::deserialize: the filter a dictionary describes; an unknown
\* filter_type is rejected.
FilterBase_deserialize(entries) ==
    IF Lookup(entries, "filter_type") = {"option_selector"}
    THEN Ok([filter_type |-> "option_selector", id |-> CHOOSE i \in Lookup(entries, "id") : TRUE])
    ELSE Throw("FilterBase: unknown filter type")

FilterState_deserialize(entries) == Ok([selected |-> entries])

\* PreviewWidget(std::string const& definition): parsed from its JSON text.
PreviewWidget(definition) ==
    CASE definition = WidgetOk1 -> Ok([id |-> "W1", type |-> "text"])
      [] definition = WidgetOk2 -> Ok([id |-> "W2", type |-> "image"])
      [] definition = WidgetOk3 -> Ok([id |-> "W3", type |-> "text"])
      [] OTHER -> Throw("PreviewWidget(): cannot parse definition")

\* CategoryRenderer(std::string const& json_text)
CategoryRenderer(json_text) ==
    IF json_text = TemplateJson THEN Ok([data |-> <<"schema-version", 1>>])
    ELSE Throw("CategoryRenderer(): cannot parse template")

\* CategoryRenderer(): the default renderer
DefaultRenderer == [data |-> <<"default">>]

\* ------------------------------------------------ libunity-scopes proxies
\* What a call into the proxy does: it returns `ret` after transmitting
\* `sent` and moving to `state`, or it throws.
Returns(ret, sent, st) == [threw |-> FALSE, ret |-> ret, sent |-> sent, state |-> st]

\* Reply::push of one wire message: transmitted while the query is not
\* finished (true), refused afterwards (false).
ReplyImpl_push(message) ==
    IF state = "Open" THEN Returns("true", <<message>>, state)
    ELSE Returns("false", <<>>, state)

\* Reply::finished(): the first terminating call closes the stream; later
\* calls are ignored.
Reply_finished ==
    IF state = "Open" THEN Returns("void", <<[kind |-> "finished"]>>, "Finished")
    ELSE Returns("void", <<>>, state)

\* Reply::error(std::exception_ptr): as finished(), carrying what().
Reply_error(what) ==
    IF state = "Open" THEN Returns("void", <<[kind |-> "error", message |-> what]>>, "Errored")
    ELSE Returns("void", <<>>, state)

\* SearchReply::push(CategorisedResult const&): the result is serialised
\* (a result without uri cannot be), then pushed.
SearchReply_push(result) ==
    IF result.uri = "" THEN Throw("Result: missing required attribute: uri")
    ELSE ReplyImpl_push([kind |-> "result", title |-> result.title,
                         uri |-> result.uri, category |-> result.category])

\* SearchReply::push(Filters const&, FilterState const&): one message
\* carries both.
SearchReply_push_filters(filters, filter_state) ==
    ReplyImpl_push([kind |-> "filters", filters |-> filters, filter_state |-> filter_state])

\* SearchReply::register_departments(Department::SCPtr const&)
SearchReply_register_departments(dept) ==
    ReplyImpl_push([kind |-> "departments", tree |-> dept])

\* PreviewReply::push(PreviewWidgetList const&)
PreviewReply_push_widgets(widgets) ==
    ReplyImpl_push([kind |-> "widgets", widgets |-> widgets])

\* PreviewReply::push(std::string const& key, Variant const& value)
PreviewReply_push_attr(key, value) ==
    ReplyImpl_push([kind |-> "attr", key |-> key, value |-> value])

\* ------------------------------------------------------ smart pointers
\* get_ptr<T>(data): a copy of the shared_ptr stored in the slot.
get_ptr(data) == ptr[data] = "live"

\* The calls below are made through a handle that holds a proxy of the
\* right type, in a process that has not been terminated.
Callable(reply, k) == ~crashed /\ kind = k /\ get_ptr(reply)

\* What the caller of a boundary function gets back.  `error` is the value
\* of the caller's char* after the call ("n/a": the function has no error
\* out-parameter); `ret` is how the call into the proxy ended.
Call(op, error, ret) == [op |-> op, error |-> error, ret |-> ret]
NoOutParam == "n/a"

\* An exception leaves an extern "C" function: no frame above it can catch
\* it, the runtime calls std::terminate.
Escapes(op) ==
    /\ crashed' = TRUE
    /\ last' = Call(op, NoOutParam, "escaped")
    /\ UNCHANGED <<kind, chan, handles>>

\* The proxy call returned (or its exception was caught): its effect on
\* the channel, and what the caller sees.
Returned(op, args, error, r) ==
    /\ state' = r.state
    /\ observed' = observed \o r.sent
    /\ accepted' = IF r.sent # << >> THEN Append(accepted, [op |-> op, args |-> args])
                   ELSE accepted
    /\ last' = Call(op, error, r.ret)

Caught(op, error, e) ==
    /\ last' = Call(op, e.what, "caught")
    /\ UNCHANGED <<state, observed, accepted>>

\* The number of non-terminal transmissions is bounded.
Bounded == Len(SelectSeq(observed', LAMBDA m : m.kind \notin {"finished", "error"})) <= MaxObserved

\* ------------------------------------------------------- reply.cpp: search
search_reply_finished(reply) ==
    /\ Callable(reply, "search")
    /\ Returned("finished", <<>>, NoOutParam, Reply_finished)
    /\ UNCHANGED <<kind, registry, crashed, handles>>

\* Faulty variant: the diagnostic is dropped: a fixed text is passed on.
search_reply_error_fixed(reply, err_string) ==
    /\ Callable(reply, "search")
    /\ Returned("error", <<err_string>>, NoOutParam, Reply_error("error"))
    /\ UNCHANGED <<kind, registry, crashed, handles>>

search_reply_error(reply, err_string) ==
    /\ Callable(reply, "search")
    /\ Returned("error", <<err_string>>, NoOutParam, Reply_error(from_gostring(err_string)))
    /\ UNCHANGED <<kind, registry, crashed, handles>>

\* SearchReply::register_category(id, title, icon, renderer): throws on an
\* id the registry holds; the new category is kept in the registry.
search_reply_register_category(reply, id, title, icon, cat_template) ==
    /\ Callable(reply, "search")
    /\ LET renderer_template == from_gostring(cat_template)
           renderer == IF renderer_template # "" THEN CategoryRenderer(renderer_template)
                       ELSE Ok(DefaultRenderer)
       IN  IF renderer.threw \/ from_gostring(id) \in DOMAIN registry
           THEN Escapes("register_category")
           ELSE /\ registry' = [c \in DOMAIN registry \cup {from_gostring(id)} |->
                                   IF c = from_gostring(id)
                                   THEN [title |-> from_gostring(title),
                                         icon |-> from_gostring(icon),
                                         renderer |-> renderer.val]
                                   ELSE registry[c]]
                /\ last' = Call("register_category", NoOutParam, "void")
                /\ UNCHANGED <<kind, state, observed, accepted, crashed, handles>>

search_reply_register_departments(reply, dept) ==
    /\ Callable(reply, "search")
    /\ Returned("register_departments", <<dept>>, NoOutParam,
                SearchReply_register_departments(dept))
    /\ Bounded
    /\ UNCHANGED <<kind, registry, crashed, handles>>

\* Faulty variant: the result is handed to the proxy twice.
search_reply_push_twice(reply, result, error) ==
    /\ Callable(reply, "search")
    /\ LET r == SearchReply_push(result)
       IN  IF r.threw THEN Caught("push", error, r)
           ELSE Returned("push", <<result>>, error, [r EXCEPT !.sent = r.sent \o r.sent])
    /\ Bounded
    /\ UNCHANGED <<kind, registry, crashed, handles>>

search_reply_push(reply, result, error) ==
    /\ Callable(reply, "search")
    /\ LET r == SearchReply_push(result)
       IN  IF r.threw THEN Caught("push", error, r)
           ELSE Returned("push", <<result>>, error, r)
    /\ Bounded
    /\ UNCHANGED <<kind, registry, crashed, handles>>

\* The loop of lines 65-67: filters.emplace_back(FilterBase::deserialize(f.get_dict()))
\* Faulty variant: an array element that is no dictionary is skipped.
RECURSIVE DeserializeFilters_skip(_, _)
DeserializeFilters_skip(items, filters) ==
    IF items = <<>> THEN Ok(filters)
    ELSE LET d == get_dict(Head(items))
         IN  IF d.threw THEN DeserializeFilters_skip(Tail(items), filters)
             ELSE LET f == FilterBase_deserialize(d.val)
                  IN  IF f.threw THEN f
                      ELSE DeserializeFilters_skip(Tail(items), Append(filters, f.val))

RECURSIVE DeserializeFilters(_, _)
DeserializeFilters(items, filters) ==
    IF items = <<>> THEN Ok(filters)
    ELSE LET d == get_dict(Head(items))
         IN  IF d.threw THEN d
             ELSE LET f == FilterBase_deserialize(d.val)
                  IN  IF f.threw THEN f
                      ELSE DeserializeFilters(Tail(items), Append(filters, f.val))

search_reply_push_filters(reply, filters_json, filter_state_json, error) ==
    /\ Callable(reply, "search")
    /\ LET filters_var == deserialize_json(from_gostring(filters_json))
           filter_state_var == deserialize_json(from_gostring(filter_state_json))
           arr == get_array(filters_var.val)
           filters == DeserializeFilters(arr.val, <<>>)
           dict == get_dict(filter_state_var.val)
           filter_state == FilterState_deserialize(dict.val)
           args == <<filters_json, filter_state_json>>
       IN  CASE filters_var.threw -> Caught("push_filters", error, filters_var)
             [] ~filters_var.threw /\ filter_state_var.threw ->
                    Caught("push_filters", error, filter_state_var)
             [] OTHER ->
                    IF arr.threw THEN Caught("push_filters", error, arr)
                    ELSE IF filters.threw THEN Caught("push_filters", error, filters)
                    ELSE IF dict.threw THEN Caught("push_filters", error, dict)
                    ELSE Returned("push_filters", args, error,
                                  SearchReply_push_filters(filters.val, filter_state.val))
    /\ Bounded
    /\ UNCHANGED <<kind, registry, crashed, handles>>

\* ------------------------------------------------------ reply.cpp: preview
preview_reply_finished(reply) ==
    /\ Callable(reply, "preview")
    /\ Returned("finished", <<>>, NoOutParam, Reply_finished)
    /\ UNCHANGED <<kind, registry, crashed, handles>>

preview_reply_error(reply, err_string) ==
    /\ Callable(reply, "preview")
    /\ Returned("error", <<err_string>>, NoOutParam, Reply_error(from_gostring(err_string)))
    /\ UNCHANGED <<kind, registry, crashed, handles>>

\* The loop of lines 97-100: widgets.push_back(PreviewWidget(widget_data[i])),
\* for i = 0 .. count-1 (the array is indexed from 1 here).
\* Faulty variant: the loop stops one element early: i < count - 1.
RECURSIVE BuildWidgets_short(_, _, _, _)
BuildWidgets_short(widget_data, i, count, widgets) ==
    IF ~(i < count - 1) THEN Ok(widgets)
    ELSE LET w == PreviewWidget(from_gostring(widget_data[i + 1]))
         IN  IF w.threw THEN w
             ELSE BuildWidgets_short(widget_data, i + 1, count, Append(widgets, w.val))

RECURSIVE BuildWidgets(_, _, _, _)
BuildWidgets(widget_data, i, count, widgets) ==
    IF ~(i < count) THEN Ok(widgets)
    ELSE LET w == PreviewWidget(from_gostring(widget_data[i + 1]))
         IN  IF w.threw THEN w
             ELSE BuildWidgets(widget_data, i + 1, count, Append(widgets, w.val))

preview_reply_push_widgets(reply, gostring_array, count, error) ==
    /\ Callable(reply, "preview")
    /\ LET widgets == BuildWidgets(gostring_array, 0, count, <<>>)
       IN  IF widgets.threw THEN Caught("push_widgets", error, widgets)
           ELSE Returned("push_widgets", <<gostring_array>>, error,
                         PreviewReply_push_widgets(widgets.val))
    /\ Bounded
    /\ UNCHANGED <<kind, registry, crashed, handles>>

\* Faulty variant: the value text is passed where the key belongs.
preview_reply_push_attr_key(reply, key, json_value, error) ==
    /\ Callable(reply, "preview")
    /\ LET value == deserialize_json(from_gostring(json_value))
       IN  IF value.threw THEN Caught("push_attr", error, value)
           ELSE Returned("push_attr", <<key, json_value>>, error,
                         PreviewReply_push_attr(from_gostring(json_value), value.val))
    /\ Bounded
    /\ UNCHANGED <<kind, registry, crashed, handles>>

preview_reply_push_attr(reply, key, json_value, error) ==
    /\ Callable(reply, "preview")
    /\ LET value == deserialize_json(from_gostring(json_value))
       IN  IF value.threw THEN Caught("push_attr", error, value)
           ELSE Returned("push_attr", <<key, json_value>>, error,
                         PreviewReply_push_attr(from_gostring(key), value.val))
    /\ Bounded
    /\ UNCHANGED <<kind, registry, crashed, handles>>

\* ---------------------------------------------------- reply.cpp: handles
\* init_ptr<T>(dest, v): a shared_ptr is constructed in the slot's storage
\* and assigned v, which adds one owner.  The slot holds no shared_ptr
\* before (the caller hands over fresh storage).
init_ptr(dest) ==
    /\ ptr[dest] # "live"
    /\ ptr' = [ptr EXCEPT ![dest] = "live"]
    /\ use_count' = use_count + 1
    /\ UNCHANGED <<transport, destroyed>>

\* Dropping one owner: the last one runs the proxy's destructor.
Drop == /\ use_count' = use_count - 1
        /\ destroyed' = IF use_count = 1 THEN destroyed + 1 ELSE destroyed

\* destroy_ptr<T>(data): the destructor of the shared_ptr in the slot.
destroy_ptr(data) ==
    /\ ptr[data] = "live"
    /\ ptr' = [ptr EXCEPT ![data] = "dead"]
    /\ Drop
    /\ UNCHANGED transport

\* Faulty variant: the slot is filled with the raw pointer: no owner is added.
init_search_reply_ptr_raw(dest, src) ==
    /\ ~crashed /\ kind = "search"
    /\ get_ptr(src)
    /\ ptr[dest] # "live"
    /\ ptr' = [ptr EXCEPT ![dest] = "live"]
    /\ last' = Call("init_ptr", NoOutParam, "void")
    /\ UNCHANGED <<kind, chan, crashed, use_count, transport, destroyed>>

init_search_reply_ptr(dest, src) ==
    /\ ~crashed /\ kind = "search"
    /\ get_ptr(src)
    /\ init_ptr(dest)
    /\ last' = Call("init_ptr", NoOutParam, "void")
    /\ UNCHANGED <<kind, chan, crashed>>

destroy_search_reply_ptr(data) ==
    /\ ~crashed /\ kind = "search"
    /\ destroy_ptr(data)
    /\ last' = Call("destroy_ptr", NoOutParam, "void")
    /\ UNCHANGED <<kind, chan, crashed>>

init_preview_reply_ptr(dest, src) ==
    /\ ~crashed /\ kind = "preview"
    /\ get_ptr(src)
    /\ init_ptr(dest)
    /\ last' = Call("init_ptr", NoOutParam, "void")
    /\ UNCHANGED <<kind, chan, crashed>>

destroy_preview_reply_ptr(data) ==
    /\ ~crashed /\ kind = "preview"
    /\ destroy_ptr(data)
    /\ last' = Call("destroy_ptr", NoOutParam, "void")
    /\ UNCHANGED <<kind, chan, crashed>>

\* The middleware lets go of the reference it holds on the proxy.
TransportRelease ==
    /\ ~crashed /\ transport
    /\ transport' = FALSE
    /\ Drop
    /\ last' = Call("transport_release", NoOutParam, "void")
    /\ UNCHANGED <<kind, chan, crashed, ptr>>

\* ----------------------------------------------------- specifications
\* The producer is handed one handle (slot 1) on an Open channel; the
\* middleware holds the other reference.
Init ==
    /\ kind \in {"search", "preview"}
    /\ state = "Open"
    /\ registry = << >>
    /\ observed = << >>
    /\ accepted = << >>
    /\ last = Call("none", NoOutParam, "void")
    /\ crashed = FALSE
    /\ ptr = [s \in Slots |-> IF s = 1 THEN "live" ELSE "raw"]
    /\ use_count = 2
    /\ transport = TRUE
    /\ destroyed = 0

Results == [title : Titles, uri : Uris, category : DOMAIN registry]
Departments == {"tree"}

Next ==
    \E reply \in Slots :
        \/ search_reply_finished(reply)
        \/ \E e \in ErrStrings : search_reply_error(reply, e)
        \/ \E c \in CategoryArgs : search_reply_register_category(reply, c[1], c[2], c[3], c[4])
        \/ \E d \in Departments : search_reply_register_departments(reply, d)
        \/ \E r \in Results, e \in ErrIn : search_reply_push(reply, r, e)
        \/ \E f \in FiltersJson, s \in FilterStateJson, e \in ErrIn :
               search_reply_push_filters(reply, f, s, e)
        \/ preview_reply_finished(reply)
        \/ \E e \in ErrStrings : preview_reply_error(reply, e)
        \/ \E a \in WidgetArrays, e \in ErrIn : preview_reply_push_widgets(reply, a, Len(a), e)
        \/ \E k \in AttrKeys, j \in AttrJson, e \in ErrIn : preview_reply_push_attr(reply, k, j, e)

Spec == Init /\ [][Next]_vars

HandleNext ==
    \/ \E dest, src \in Slots : init_search_reply_ptr(dest, src)
    \/ \E data \in Slots : destroy_search_reply_ptr(data)
    \/ \E dest, src \in Slots : init_preview_reply_ptr(dest, src)
    \/ \E data \in Slots : destroy_preview_reply_ptr(data)
    \/ TransportRelease
    \/ \E reply \in Slots :
        \/ search_reply_finished(reply)
        \/ \E e \in ErrStrings : search_reply_error(reply, e)
        \/ preview_reply_finished(reply)
        \/ \E e \in ErrStrings : preview_reply_error(reply, e)

HandleSpec == Init /\ [][HandleNext]_vars

\* ------------------------------------------------------------ claims
PushOps == {"push", "push_filters", "push_widgets", "push_attr"}
TerminalKinds == {"finished", "error"}
Last(seq) == seq[Len(seq)]
OfKind(k) == SelectSeq(observed, LAMBDA m : m.kind = k)
AcceptedOf(op) == SelectSeq(accepted, LAMBDA a : a.op = op)

\* The caller holds an error message after the call.
Reported(c) == c.error \notin ErrIn \cup {NoOutParam}

\* C1: once the channel is terminated, every push returns an error to its
\* caller (and transmits nothing).
C1_ClosedPushFails ==
    (state # "Open" /\ last.op \in PushOps) => Reported(last)

C2_State ==
    LET term == SelectSeq(observed, LAMBDA m : m.kind \in TerminalKinds)
        calls == SelectSeq(accepted, LAMBDA a : a.op \in TerminalKinds)
    IN  /\ Len(term) = (IF state = "Open" THEN 0 ELSE 1)
        /\ Len(calls) = Len(term)
        /\ state # "Open" =>
              /\ Last(observed) = term[1]
              /\ term[1].kind = calls[1].op
              /\ (state = "Finished") = (term[1].kind = "finished")
              /\ (state = "Errored") = (term[1].kind = "error")
              /\ term[1].kind = "error" => term[1].message = calls[1].args[1]

C2_Step ==
    /\ state # "Open" => state' = state /\ observed' = observed
    /\ (state # "Open" /\ last'.op \in TerminalKinds)
          => (last'.ret = "void" /\ ~Reported(last') /\ ~crashed')
    /\ (state = "Open" /\ last'.op \in TerminalKinds)
          => (state' # "Open" /\ Len(observed') = Len(observed) + 1)

C3_NoExceptionEscapes ==
    [][\A c \in CategoryArgs :
          (c[1] \in DOMAIN registry /\ c[4] \in {"", TemplateJson} /\
           \E reply \in Slots : search_reply_register_category(reply, c[1], c[2], c[3], c[4]))
          => ~crashed']_vars

\* C4: registering an id the registry holds is reported to the caller as
\* an error, leaves the registry as it was and the process running.
C4_DuplicateReported ==
    [][\A c \in CategoryArgs :
          (c[1] \in DOMAIN registry /\
           \E reply \in Slots : search_reply_register_category(reply, c[1], c[2], c[3], c[4]))
          => (Reported(last') /\ registry' = registry /\ ~crashed')]_vars

\* C5: the consumer observes the accepted results in push order, each with
\* the title and category id it was pushed with; an accepted push has
\* transmitted its result when it returns; the finished signal comes after
\* every result, and finish() on an Open channel leaves it Finished.
C5_State ==
    LET res == OfKind("result")
        psh == AcceptedOf("push")
    IN  /\ Len(res) = Len(psh)
        /\ \A i \in 1..Len(res) :
              /\ res[i].title = psh[i].args[1].title
              /\ res[i].category = psh[i].args[1].category
        /\ \A i \in 1..Len(observed) :
              observed[i].kind = "finished" => (i = Len(observed) /\ state = "Finished")

C5_Step ==
    /\ (last'.op = "push" /\ last'.ret = "true") =>
        \A reply \in Slots, r \in Results, e \in ErrIn :
          search_reply_push(reply, r, e)
          => /\ Len(observed') = Len(observed) + 1
             /\ SubSeq(observed', 1, Len(observed)) = observed
             /\ Last(observed').kind = "result"
             /\ Last(observed').title = r.title
             /\ Last(observed').category = r.category
    /\ (last'.op = "finished" /\ state = "Open") =>
        \A reply \in Slots :
          search_reply_finished(reply)
          => (state' = "Finished" /\ observed' = Append(observed, [kind |-> "finished"]))

\* C5: accepted results are observed in push order, finished last.
C5_ResultsInPushOrder == []C5_State /\ [][C5_Step]_vars

C5_Witness ==
    /\ kind = "search" /\ state = "Finished"
    /\ Len(observed) = 3
    /\ observed[1].kind = "result" /\ observed[1].title = "Match A"
    /\ observed[2].kind = "result" /\ observed[2].title = "Match B"
    /\ observed[1].category = "sports" /\ observed[2].category = "sports"
    /\ observed[3].kind = "finished"

\* C6: the widgets the consumer observes are the widgets of the accepted
\* pushWidgets calls, call after call, each call's list in its own order
\* with nothing dropped or duplicated; the finished signal follows them.
RECURSIVE Flatten(_)
Flatten(lists) == IF lists = << >> THEN << >> ELSE Head(lists) \o Flatten(Tail(lists))
WidgetId(definition) ==
    CASE definition = WidgetOk1 -> "W1" [] definition = WidgetOk2 -> "W2"
      [] definition = WidgetOk3 -> "W3" [] OTHER -> "?"

C6_State ==
    LET seen == Flatten([i \in 1..Len(OfKind("widgets")) |-> OfKind("widgets")[i].widgets])
        given == Flatten([i \in 1..Len(AcceptedOf("push_widgets")) |->
                            AcceptedOf("push_widgets")[i].args[1]])
    IN  /\ Len(seen) = Len(given)
        /\ \A i \in 1..Len(seen) : seen[i].id = WidgetId(given[i])
        /\ \A i \in 1..Len(observed) :
              observed[i].kind = "finished" => (i = Len(observed) /\ state = "Finished")

C6_Step ==
    (last'.op = "push_widgets") =>
    \A reply \in Slots, a \in WidgetArrays, e \in ErrIn :
        (preview_reply_push_widgets(reply, a, Len(a), e) /\ state = "Open"
            /\ \A i \in 1..Len(a) : a[i] # WidgetBad)
        => /\ Len(observed') = Len(observed) + 1
           /\ SubSeq(observed', 1, Len(observed)) = observed
           /\ Last(observed').kind = "widgets"
           /\ Len(Last(observed').widgets) = Len(a)
           /\ \A i \in 1..Len(a) : Last(observed').widgets[i].id = WidgetId(a[i])

\* C6: the widgets observed are the widgets pushed, in order.
C6_WidgetsInOrder == []C6_State /\ [][C6_Step]_vars

C6_Witness ==
    /\ kind = "preview" /\ state = "Finished"
    /\ Len(observed) = 3
    /\ observed[1].kind = "widgets" /\ Len(observed[1].widgets) = 3
    /\ observed[1].widgets[1].id = "W1" /\ observed[1].widgets[2].id = "W2"
    /\ observed[1].widgets[3].id = "W3"
    /\ observed[2].kind = "widgets" /\ Len(observed[2].widgets) = 2
    /\ observed[2].widgets[1].id = "W2" /\ observed[2].widgets[2].id = "W1"
    /\ observed[3].kind = "finished"

\* C7: the value the consumer holds for a key is the value of the last
\* attribute it received for that key; it is the value of the JSON text of
\* the last accepted pushAttribute for that key, and a push for one key
\* leaves the values of the other keys as they were.
JsonNumber(text) ==
    CASE text = "4.5" -> <<4, 5>> [] text = "5.0" -> <<5, 0>> [] OTHER -> << >>

Unset == [which |-> "Unset"]
ObservedValue(obs, key) ==
    LET attrs == SelectSeq(obs, LAMBDA m : m.kind = "attr" /\ m.key = key)
    IN  IF attrs = << >> THEN Unset ELSE Last(attrs).value

C7_State ==
    \A k \in AttrKeys :
        LET calls == SelectSeq(accepted, LAMBDA a : a.op = "push_attr" /\ a.args[1] = k)
        IN  IF calls = << >> THEN ObservedValue(observed, k) = Unset
            ELSE /\ ObservedValue(observed, k).which = "Double"
                 /\ ObservedValue(observed, k).d = JsonNumber(Last(calls).args[2])

C7_Step ==
    (last'.op = "push_attr") =>
    \A reply \in Slots, k \in AttrKeys, j \in AttrJson, e \in ErrIn :
        preview_reply_push_attr(reply, k, j, e)
        => \A other \in AttrKeys \ {k} :
              ObservedValue(observed', other) = ObservedValue(observed, other)

\* C7: the observed value of a key is that of its last accepted push.
C7_LastWriteWins == []C7_State /\ [][C7_Step]_vars

C7_Witness ==
    /\ kind = "preview" /\ state = "Open"
    /\ Len(OfKind("attr")) = 2
    /\ OfKind("attr")[1].key = "rating" /\ OfKind("attr")[1].value.d = <<4, 5>>
    /\ OfKind("attr")[2].key = "rating" /\ OfKind("attr")[2].value.d = <<5, 0>>

\* C8: a filter push whose filter-definition blob or filter-state blob is
\* malformed or fails validation returns an error string, transmits
\* nothing and leaves the channel state alone; every filters transmission
\* carries the filters and the filter state of one accepted call.
BadFilters == {FiltersBadElem, FiltersBadType, FiltersNotArray, FiltersMalformed}
BadFilterState == {StateNotDict, StateMalformed}

C8_State ==
    LET sent == OfKind("filters")
        calls == AcceptedOf("push_filters")
    IN  /\ Len(sent) = Len(calls)
        /\ \A i \in 1..Len(sent) :
              /\ calls[i].args[1] \notin BadFilters
              /\ calls[i].args[2] \notin BadFilterState
              /\ DOMAIN sent[i] = {"kind", "filters", "filter_state"}
              /\ Len(sent[i].filters) = 1 /\ sent[i].filters[1].id = "f1"
              /\ sent[i].filter_state.selected = {<<"f1", "x">>}

\* (a step that does not end that way is no call with a bad blob)
C8_Step ==
    (last'.op = "push_filters"
        /\ ~(Reported(last') /\ observed' = observed /\ state' = state /\ ~crashed')) =>
    \A reply \in Slots, f \in FiltersJson, s \in FilterStateJson, e \in ErrIn :
        (f \in BadFilters \/ s \in BadFilterState)
        => ~search_reply_push_filters(reply, f, s, e)

\* C8: a filter push transmits filters and state together or nothing.
C8_FilterPushAtomic == []C8_State /\ [][C8_Step]_vars

C8_Witness ==
    /\ kind = "search" /\ state = "Open"
    /\ Len(OfKind("filters")) = 1
    /\ last.op = "push_filters" /\ last.ret = "caught"

\* C9: the owner count is the number of live handles plus the middleware's
\* reference; acquiring adds one owner and a live handle on the same
\* channel, releasing removes one; the proxy is destroyed exactly when no
\* owner is left, and at most once.
LiveHandles == {s \in Slots : ptr[s] = "live"}

C9_State ==
    /\ use_count = Cardinality(LiveHandles) + (IF transport THEN 1 ELSE 0)
    /\ destroyed = (IF use_count = 0 THEN 1 ELSE 0)

C9_Step ==
    /\ \A dest, src \in Slots :
          (init_search_reply_ptr(dest, src) \/ init_preview_reply_ptr(dest, src))
          => (use_count' = use_count + 1 /\ LiveHandles' = LiveHandles \cup {dest}
              /\ dest \notin LiveHandles)
    /\ \A data \in Slots :
          (destroy_search_reply_ptr(data) \/ destroy_preview_reply_ptr(data))
          => (use_count' = use_count - 1 /\ LiveHandles' = LiveHandles \ {data}
              /\ data \in LiveHandles)
    /\ destroyed' >= destroyed

\* C9: owners are counted exactly; the proxy dies once, at zero.
C9_SharedOwnership == []C9_State /\ [][C9_Step]_vars

C9_Witness ==
    /\ use_count = 0 /\ destroyed = 1 /\ ~transport
    /\ Cardinality({s \in Slots : ptr[s] = "dead"}) >= 2

\* C10: a push operation writes its error out-parameter if and only if the
\* call failed (the proxy did not take the value).
C10_ErrorIffFailed ==
    last.op \in PushOps => ((last.ret # "true") <=> Reported(last))

====
